---- MODULE Spec2Model ----
(***************************************************************************)
(* A model of app.py, the educational image service: the static catalog    *)
(* EDUCATIONAL_IMAGES, the resolver find_relevant_images, the fetch cache   *)
(* download_image over the process-wide dict image_cache, and the three     *)
(* routes /, /fetch_image and /health.                                      *)
(*                                                                         *)
(*   Spec          the service: Workers threads of the server handle       *)
(*                 requests concurrently; every access of image_cache and  *)
(*                 the network retrieval are separate steps.                *)
(*   SpecDownload  download_image called directly, one call after the      *)
(*                 other, on a cache that already holds 0..20 records.     *)
(*   SpecResolver  find_relevant_images applied to queries and subjects    *)
(*                 built from the keywords of its rules.                    *)
(***************************************************************************)
EXTENDS Integers, Sequences, FiniteSets

VARIABLES
    image_cache,       \* app.py:16   digest -> base64 text
    pc,                \* position of each worker in its handler
    route,             \* the route a worker is serving
    req,               \* fetch_image: the request body being handled
    todo,              \* fetch_image: entries of images[:count] still to process
    processed_images,  \* fetch_image: the list built by the loop
    url,               \* download_image: its argument
    image_base64,      \* download_image: the encoded body of a 200 response
    image_data,        \* download_image's return value (None or Some(text))
    dl_raised,         \* download_image: the exception it let through ("" for none)
    response,          \* the response a handler has produced
    netcalls,          \* history: requests.get calls made for the current request / call
    netlast,           \* history: how the last requests.get of the worker ended
    wrote,             \* history: the current request / call stored into image_cache
    cache0,            \* SpecDownload: image_cache when the current call began
    calls,             \* SpecDownload: the completed calls, oldest first
    rq,                \* SpecResolver: the (query, subject) pair
    rres               \* SpecResolver: what find_relevant_images returned for it

vars == << image_cache, pc, route, req, todo, processed_images, url, image_base64,
           image_data, dl_raised, response, netcalls, netlast, wrote, cache0, calls,
           rq, rres >>

(***************************************************************************)
(* Bounds of the model.                                                     *)
(***************************************************************************)
NumWorkers == 2        \* server threads handling requests at the same time
MaxCalls == 2          \* SpecDownload: successive download_image calls
MaxQueryWords == 3     \* SpecResolver: words concatenated into a query

Workers == 1..NumWorkers

(***************************************************************************)
(* Python values.  Optional[str] is None or Some(s).                        *)
(***************************************************************************)
None == << >>
Some(s) == << s >>

\* `not x` for x an Optional[str]: None and "" are falsy.
Falsy(x) == x = None \/ x = Some("")

\* x or ""
OrEmpty(x) == IF Falsy(x) THEN "" ELSE x[1]

(***************************************************************************)
(* The catalog (app.py:19-50).                                              *)
(***************************************************************************)
DickseeUrl == "https://upload.wikimedia.org/wikipedia/commons/thumb/e/e6/DickseeRomeoandJuliet.jpg/400px-DickseeRomeoandJuliet.jpg"
WaterhouseUrl == "https://upload.wikimedia.org/wikipedia/commons/thumb/b/ba/John_William_Waterhouse_-_Juliet_-_1898.jpg/400px-John_William_Waterhouse_-_Juliet_-_1898.jpg"
ShakespeareUrl == "https://upload.wikimedia.org/wikipedia/commons/thumb/a/a2/Shakespeare.jpg/220px-Shakespeare.jpg"
SolarUrl == "https://upload.wikimedia.org/wikipedia/commons/thumb/c/cb/Planets2013.svg/450px-Planets2013.svg.png"
DnaUrl == "https://upload.wikimedia.org/wikipedia/commons/thumb/4/4c/DNA_Structure%2BKey%2BLabelled.pn_NoBB.png/220px-DNA_Structure%2BKey%2BLabelled.pn_NoBB.png"

EDUCATIONAL_IMAGES ==
    [ romeo_juliet_dicksee |->
        [ url |-> DickseeUrl,
          title |-> "Romeo and Juliet by Frank Dicksee",
          caption |-> "Romeo and Juliet by Frank Dicksee (1884) - Public Domain",
          alt_text |-> "Famous painting of Romeo and Juliet embracing" ],
      romeo_juliet_waterhouse |->
        [ url |-> WaterhouseUrl,
          title |-> "Juliet by John William Waterhouse",
          caption |-> "Juliet by John William Waterhouse (1898) - Public Domain",
          alt_text |-> "Painting of Juliet on her balcony" ],
      shakespeare_portrait |->
        [ url |-> ShakespeareUrl,
          title |-> "William Shakespeare Portrait",
          caption |-> "William Shakespeare - The Bard",
          alt_text |-> "Portrait of William Shakespeare" ],
      solar_system |->
        [ url |-> SolarUrl,
          title |-> "Solar System Diagram",
          caption |-> "The Solar System - Educational Diagram",
          alt_text |-> "Diagram showing all planets in the solar system" ],
      dna_structure |->
        [ url |-> DnaUrl,
          title |-> "DNA Double Helix",
          caption |-> "DNA Double Helix Structure",
          alt_text |-> "3D model of DNA double helix" ] ]

CatalogKeys == DOMAIN EDUCATIONAL_IMAGES
CatalogUrls == { EDUCATIONAL_IMAGES[k].url : k \in CatalogKeys }

(***************************************************************************)
(* Strings: str.lower() and the substring test `needle in hay`.             *)
(***************************************************************************)
UpperCase == "ABCDEFGHIJKLMNOPQRSTUVWXYZ"
LowerCase == "abcdefghijklmnopqrstuvwxyz"

CharAt(s, i) == SubSeq(s, i, i)

\* The lower-case letter of each upper-case letter.
LowerOf ==
    [ c \in { CharAt(UpperCase, i) : i \in 1..Len(UpperCase) } |->
        CharAt(LowerCase, CHOOSE i \in 1..Len(UpperCase) : CharAt(UpperCase, i) = c) ]

LowerChar(c) == IF c \in DOMAIN LowerOf THEN LowerOf[c] ELSE c

RECURSIVE lower(_)
lower(s) == IF s = "" THEN "" ELSE LowerChar(CharAt(s, 1)) \o lower(Tail(s))

\* needle in hay
In(needle, hay) ==
    \E i \in 1..(Len(hay) - Len(needle) + 1) :
        SubSeq(hay, i, i + Len(needle) - 1) = needle


(***************************************************************************)
(* hashlib.md5(url.encode()).hexdigest() (app.py:56), tabulated on the      *)
(* locations of the model: the five catalog locations and OtherUrls, the    *)
(* locations SpecDownload fills the cache with.                             *)
(***************************************************************************)
OtherUrls ==
    << "https://example.org/images/01.jpg",
       "https://example.org/images/02.jpg",
       "https://example.org/images/03.jpg",
       "https://example.org/images/04.jpg",
       "https://example.org/images/05.jpg",
       "https://example.org/images/06.jpg",
       "https://example.org/images/07.jpg",
       "https://example.org/images/08.jpg",
       "https://example.org/images/09.jpg",
       "https://example.org/images/10.jpg",
       "https://example.org/images/11.jpg",
       "https://example.org/images/12.jpg",
       "https://example.org/images/13.jpg",
       "https://example.org/images/14.jpg",
       "https://example.org/images/15.jpg",
       "https://example.org/images/16.jpg",
       "https://example.org/images/17.jpg",
       "https://example.org/images/18.jpg",
       "https://example.org/images/19.jpg",
       "https://example.org/images/20.jpg",
       "https://example.org/images/21.jpg" >>

OtherDigests ==
    << "3ceb153f79aa89adccf2f570e55d3b8f",
       "7da37d244b86e361305278cfbdeb068d",
       "e6ceff3ec15b5a9eae26755c3a328eed",
       "1bcee15a701d7eb370f3c8ad77e7a16f",
       "5308538978095e6bab3d4e359a6d8478",
       "b4787ec5f056dcb37f0e9eefa8330485",
       "39c9e617ec74ab3fdcef143daf3e1f66",
       "ebe78ad8797abf1c5c064119434325f1",
       "0de9002138a9b1b6cc28269cbe9316c6",
       "526a91027de6d1282c319f8d51d67352",
       "19f4f3edbd729e0ff2010fd06540a7c7",
       "fbb62fabe90520b6ad2940618a126116",
       "7a2faab49191d97a849435209f8331a5",
       "532fade376f6ab20096efb1b9a3e6cac",
       "9e3f39a1f5438e05b88f9a8c3c1559a6",
       "9c3698878a9a8535460d76f764428212",
       "567a0863db4f67c95894192be7fe744b",
       "4cdcb2d0e9db1a343e98672113c3f261",
       "fa5232e88514b95bb629858661053b23",
       "5374daf09cc9261efcdd13416a7f37ff",
       "ccad15a24a5ea84ee1505fdd72f9b857" >>

md5(u) ==
    CASE u = DickseeUrl -> "96415f0e4636af342cf95f0027a116b8"
      [] u = WaterhouseUrl -> "65cd1650c647e4e2808b78f54a37911e"
      [] u = ShakespeareUrl -> "ae50bfd3ba61de8dfec0ddfa9684c0c9"
      [] u = SolarUrl -> "b9894019ca71639569a83f59562d6b99"
      [] u = DnaUrl -> "411b5267c205f55d13401266ecb38575"
      [] OTHER -> OtherDigests[CHOOSE i \in 1..Len(OtherUrls) : OtherUrls[i] = u]

(***************************************************************************)
(* base64.b64encode(content).decode('utf-8') (app.py:63); content is a      *)
(* sequence of bytes.                                                       *)
(***************************************************************************)
B64Alphabet == "ABCDEFGHIJKLMNOPQRSTUVWXYZabcdefghijklmnopqrstuvwxyz0123456789+/"

B64Char(n) == CharAt(B64Alphabet, n + 1)

RECURSIVE b64encode(_)
b64encode(content) ==
    IF Len(content) = 0 THEN ""
    ELSE IF Len(content) = 1 THEN
        B64Char(content[1] \div 4) \o B64Char((content[1] % 4) * 16) \o "=="
    ELSE IF Len(content) = 2 THEN
        B64Char(content[1] \div 4)
            \o B64Char((content[1] % 4) * 16 + content[2] \div 16)
            \o B64Char((content[2] % 16) * 4) \o "="
    ELSE
        B64Char(content[1] \div 4)
            \o B64Char((content[1] % 4) * 16 + content[2] \div 16)
            \o B64Char((content[2] % 16) * 4 + content[3] \div 64)
            \o B64Char(content[3] % 64)
            \o b64encode(SubSeq(content, 4, Len(content)))

(***************************************************************************)
(* The network: what requests.get(url, timeout=10) (app.py:60) can do.      *)
(* It returns a response with a status code and a body, or raises           *)
(* (a timeout, a connection error).                                         *)
(***************************************************************************)
Contents == { << >>, << 255, 216, 255 >> }

NetOutcomes ==
    [ kind : {"response"}, status_code : {200}, content : Contents, exc : {""} ]
        \cup [ kind : {"response"}, status_code : {204, 404}, content : { << >> }, exc : {""} ]
        \cup [ kind : {"raise"}, status_code : {0}, content : { << >> },
               exc : {"Timeout", "ConnectionError"} ]

(***************************************************************************)
(* JSON values as Python sees them after request.json (app.py:113).         *)
(***************************************************************************)
JAbsent == [ ty |-> "absent", s |-> "", n |-> 0 ]       \* key not in the dict
JNull == [ ty |-> "null", s |-> "", n |-> 0 ]           \* None
JStr(s) == [ ty |-> "str", s |-> s, n |-> 0 ]
JInt(n) == [ ty |-> "int", s |-> "", n |-> n ]
JBool(b) == [ ty |-> "bool", s |-> "", n |-> IF b THEN 1 ELSE 0 ]
JFloat(s) == [ ty |-> "float", s |-> s, n |-> 0 ]       \* s: its decimal text
JList(n) == [ ty |-> "list", s |-> "", n |-> n ]        \* n: its length

\* bool(v)
Truthy(v) ==
    CASE v.ty = "null" -> FALSE
      [] v.ty = "str" -> v.s # ""
      [] v.ty \in {"int", "bool", "list"} -> v.n # 0
      [] v.ty = "float" -> v.s \notin {"0.0", "-0.0"}
      [] OTHER -> FALSE

\* A request body: a JSON object with the three keys the handler reads, or something
\* that is no object (kind "null", "list", "str", "int"), or no JSON at all ("nojson").
JObject(q, s, c) == [ ty |-> "object", query |-> q, subject |-> s, count |-> c ]
NonObject(ty) == [ ty |-> ty, query |-> JAbsent, subject |-> JAbsent, count |-> JAbsent ]

\* type(v).__name__
TypeName(v) ==
    CASE v.ty = "null" -> "NoneType"
      [] v.ty = "object" -> "dict"
      [] OTHER -> v.ty

Value(v) == [ raised |-> FALSE, type |-> "", msg |-> "", value |-> v ]
Raise(t, m) == [ raised |-> TRUE, type |-> t, msg |-> m, value |-> << >> ]

(***************************************************************************)
(* find_relevant_images (app.py:72-103).                                    *)
(***************************************************************************)
\* The 'juliet' rule tested before the 'dicksee' / 'romeo' and 'juliet' rule.
QueryRules_JulietFirst(query_lower) ==
    IF In("juliet", query_lower)
    THEN << EDUCATIONAL_IMAGES["romeo_juliet_waterhouse"] >>
    ELSE IF In("dicksee", query_lower)
           \/ (In("romeo", query_lower) /\ In("juliet", query_lower))
    THEN << EDUCATIONAL_IMAGES["romeo_juliet_dicksee"] >>
    ELSE IF In("shakespeare", query_lower)
    THEN << EDUCATIONAL_IMAGES["shakespeare_portrait"] >>
    ELSE IF In("solar", query_lower) \/ In("planet", query_lower)
    THEN << EDUCATIONAL_IMAGES["solar_system"] >>
    ELSE IF In("dna", query_lower) \/ In("genetic", query_lower)
    THEN << EDUCATIONAL_IMAGES["dna_structure"] >>
    ELSE << >>

\* app.py:77-87: the if / elif chain over the lower-cased query, on results = [].
QueryRules(query_lower) ==
    IF In("dicksee", query_lower)
           \/ (In("romeo", query_lower) /\ In("juliet", query_lower))
    THEN << EDUCATIONAL_IMAGES["romeo_juliet_dicksee"] >>
    ELSE IF In("juliet", query_lower)
    THEN << EDUCATIONAL_IMAGES["romeo_juliet_waterhouse"] >>
    ELSE IF In("shakespeare", query_lower)
    THEN << EDUCATIONAL_IMAGES["shakespeare_portrait"] >>
    ELSE IF In("solar", query_lower) \/ In("planet", query_lower)
    THEN << EDUCATIONAL_IMAGES["solar_system"] >>
    ELSE IF In("dna", query_lower) \/ In("genetic", query_lower)
    THEN << EDUCATIONAL_IMAGES["dna_structure"] >>
    ELSE << >>

\* app.py:92-97: the if / elif chain over the lower-cased subject.
SubjectRules(subject_lower) ==
    IF In("english", subject_lower) \/ In("literature", subject_lower)
    THEN << EDUCATIONAL_IMAGES["shakespeare_portrait"] >>
    ELSE IF In("science", subject_lower) \/ In("biology", subject_lower)
    THEN << EDUCATIONAL_IMAGES["dna_structure"] >>
    ELSE IF In("astronomy", subject_lower) \/ In("physics", subject_lower)
    THEN << EDUCATIONAL_IMAGES["solar_system"] >>
    ELSE << >>

\* The default left out.
DefaultRule_Missing(results) == results

\* app.py:99-101: default to Shakespeare if nothing else matches.
DefaultRule(results) ==
    IF results = << >> THEN << EDUCATIONAL_IMAGES["shakespeare_portrait"] >> ELSE results

\* `if subject` in place of `if not results and subject`.
SubjectConsulted_Always(results, subject) == Truthy(subject)

\* app.py:90: `if not results and subject`
SubjectConsulted(results, subject) == results = << >> /\ Truthy(subject)

\* query and subject are Python values: query.lower() and subject.lower() raise
\* AttributeError on anything that is no str.
find_relevant_images(query, subject) ==
    IF query.ty # "str"
    THEN Raise("AttributeError",
               "'" \o TypeName(query) \o "' object has no attribute 'lower'")
    ELSE LET query_lower == lower(query.s)
             results == QueryRules(query_lower)
         IN  IF SubjectConsulted(results, subject)
             THEN IF subject.ty # "str"
                  THEN Raise("AttributeError",
                             "'" \o TypeName(subject) \o "' object has no attribute 'lower'")
                  ELSE Value(DefaultRule(results \o SubjectRules(lower(subject.s))))
             ELSE Value(DefaultRule(results))

(***************************************************************************)
(* fetch_image up to its loop (app.py:113-130).                             *)
(***************************************************************************)
\* dict.get(key, default), v the value under the key or JAbsent
DictGet(v, default) == IF v.ty = "absent" THEN default ELSE v

Min(a, b) == IF a < b THEN a ELSE b
Max(a, b) == IF a > b THEN a ELSE b

\* The bound taken as the last index from 0: seq[:n - 1] in place of seq[:n].
SliceTo_Exclusive(seq, n) ==
    IF n - 1 >= 0 THEN SubSeq(seq, 1, Min(n - 1, Len(seq)))
    ELSE SubSeq(seq, 1, Max(Len(seq) + n - 1, 0))

\* The count raised to 1 when it is below: seq[:max(n, 1)].
SliceTo_AtLeastOne(seq, n) == SubSeq(seq, 1, Min(Max(n, 1), Len(seq)))

\* seq[:n] for an int n: a negative n counts from the end.
SliceTo(seq, n) ==
    IF n >= 0 THEN SubSeq(seq, 1, Min(n, Len(seq)))
    ELSE SubSeq(seq, 1, Max(Len(seq) + n, 0))

\* images[:count]: count an int (a bool is an int) or None; anything else is a TypeError.
Slice(images, count) ==
    CASE count.ty \in {"int", "bool"} -> Value(SliceTo(images, count.n))
      [] count.ty = "null" -> Value(images)
      [] OTHER -> Raise("TypeError",
             "slice indices must be integers or None or have an __index__ method")

\* app.py:113-116: request.json and the three data.get calls.  The value is the
\* triple (query, subject, count).
ReadRequest(body) ==
    CASE body.ty = "nojson" ->
             Raise("BadRequest", "400 Bad Request: Failed to decode JSON object")
      [] body.ty = "object" ->
             Value([ query |-> DictGet(body.query, JStr("")),
                     subject |-> DictGet(body.subject, JNull),
                     count |-> DictGet(body.count, JInt(1)) ])
      [] OTHER ->
             Raise("AttributeError",
                   "'" \o TypeName(body) \o "' object has no attribute 'get'")

\* app.py:113-130: the body of the try block up to the loop: the list the loop
\* iterates over, or the exception raised on the way.
LoopList(body) ==
    LET data == ReadRequest(body) IN
    IF data.raised THEN data
    ELSE LET images == find_relevant_images(data.value.query, data.value.subject) IN
         IF images.raised THEN images
         ELSE Slice(images.value, data.value.count)

\* app.py:121: `if not images`, on what find_relevant_images returned.
NoImages(body) ==
    LET data == ReadRequest(body) IN
    /\ ~data.raised
    /\ LET images == find_relevant_images(data.value.query, data.value.subject) IN
       ~images.raised /\ images.value = << >>

(***************************************************************************)
(* Responses.                                                               *)
(***************************************************************************)
NoResponse == [ kind |-> "none" ]

\* jsonify({"success": ..., "images": ..., "error": ...}); error None: no such key
JsonResponse(success, images, error) ==
    [ kind |-> "json", success |-> success, images |-> images, error |-> error ]

\* An exception that left the handler: the transport layer's 500.
Escaped(type) == [ kind |-> "escaped", type |-> type ]

\* `except Exception` (app.py:68, app.py:148) catches every exception of the model:
\* AttributeError, TypeError, werkzeug's BadRequest, requests' Timeout and
\* ConnectionError all derive from Exception.
ExceptionTypes == {"AttributeError", "TypeError", "BadRequest", "Timeout", "ConnectionError"}
\* `except requests.Timeout` in place of `except Exception`.
DownloadCatches_TimeoutOnly(type) == type = "Timeout"
DownloadCatches(type) == type \in ExceptionTypes
\* `except TypeError` in place of `except Exception`.
HandlerCatches_TypeErrorOnly(type) == type = "TypeError"
HandlerCatches(type) == type \in ExceptionTypes

\* app.py:148-153
ExceptClause(type, msg) ==
    IF HandlerCatches(type)
    THEN JsonResponse(FALSE, << >>, Some(msg))
    ELSE Escaped(type)

\* The condition of "url" inverted: `img["url"] if image_data else ""`.
ImageResult_UrlInverted(img, data) ==
    [ url |-> IF Falsy(data) THEN "" ELSE img.url,
      data |-> OrEmpty(data),
      title |-> img.title,
      educational_caption |-> img.caption,
      alt_text |-> img.alt_text,
      source |-> "wikimedia" ]

\* The condition of "url" as a test for None: `img["url"] if image_data is None else ""`.
ImageResult_NoneOnly(img, data) ==
    [ url |-> IF data = None THEN img.url ELSE "",
      data |-> OrEmpty(data),
      title |-> img.title,
      educational_caption |-> img.caption,
      alt_text |-> img.alt_text,
      source |-> "wikimedia" ]

\* app.py:134-141
ImageResult(img, data) ==
    [ url |-> IF Falsy(data) THEN img.url ELSE "",
      data |-> OrEmpty(data),
      title |-> img.title,
      educational_caption |-> img.caption,
      alt_text |-> img.alt_text,
      source |-> "wikimedia" ]

(***************************************************************************)
(* The state after construction (app.py:13-16): an empty cache, every       *)
(* worker idle.                                                             *)
(***************************************************************************)
\* A capacity below the number of catalog locations.
MAX_CACHE_SIZE_Small == Cardinality(CatalogKeys) - 3
MAX_CACHE_SIZE == 20

NoRequest == NonObject("none")
EmptyCache == [ k \in {} |-> "" ]

IdleFrame ==
    /\ pc = [ t \in Workers |-> "idle" ]
    /\ route = [ t \in Workers |-> "" ]
    /\ req = [ t \in Workers |-> NoRequest ]
    /\ todo = [ t \in Workers |-> << >> ]
    /\ processed_images = [ t \in Workers |-> << >> ]
    /\ url = [ t \in Workers |-> "" ]
    /\ image_base64 = [ t \in Workers |-> "" ]
    /\ image_data = [ t \in Workers |-> None ]
    /\ dl_raised = [ t \in Workers |-> "" ]
    /\ response = [ t \in Workers |-> NoResponse ]
    /\ netcalls = [ t \in Workers |-> 0 ]
    /\ netlast = [ t \in Workers |-> "" ]
    /\ wrote = [ t \in Workers |-> FALSE ]

NoQuery == [ query |-> JNull, subject |-> JNull ]
Pending == [ raised |-> FALSE, type |-> "pending", msg |-> "", value |-> << >> ]

Init ==
    /\ image_cache = EmptyCache
    /\ IdleFrame
    /\ cache0 = EmptyCache
    /\ calls = << >>
    /\ rq = NoQuery
    /\ rres = Pending

(***************************************************************************)
(* fetch_image's loop (app.py:130-146).                                     *)
(***************************************************************************)
\* The cache check left out: every call goes to the network.
EnterDownload_NoCheck(t, u) ==
    /\ url' = [ url EXCEPT ![t] = u ]
    /\ pc' = [ pc EXCEPT ![t] = "dl_get" ]

\* app.py:56-57: cache_key = md5(url); `cache_key in image_cache`
EnterDownload(t, u) ==
    /\ url' = [ url EXCEPT ![t] = u ]
    /\ pc' = [ pc EXCEPT ![t] = IF md5(u) \in DOMAIN image_cache THEN "dl_hit" ELSE "dl_get" ]

\* The head of the loop over images[:count], entered with the list still to
\* process: after the last entry the success response (app.py:143-146), else the
\* next download_image call (app.py:132).
LoopHead(t, list, processed) ==
    /\ todo' = [ todo EXCEPT ![t] = list ]
    /\ processed_images' = [ processed_images EXCEPT ![t] = processed ]
    /\ IF list = << >>
       THEN /\ response' = [ response EXCEPT ![t] = JsonResponse(TRUE, processed, None) ]
            /\ pc' = [ pc EXCEPT ![t] = "respond" ]
            /\ UNCHANGED url
       ELSE /\ EnterDownload(t, Head(list).url)
            /\ UNCHANGED response

\* download_image returns data, or lets the exception raised through, to its
\* caller.  In fetch_image (app.py:132-141) the result is appended and the loop goes
\* on, or the exception reaches the except clause; a direct caller has the result.
DownloadReturns(t, data, raised) ==
    /\ image_data' = [ image_data EXCEPT ![t] = data ]
    /\ dl_raised' = [ dl_raised EXCEPT ![t] = raised ]
    /\ IF route[t] = "fetch_image"
       THEN IF raised # ""
            THEN /\ response' = [ response EXCEPT ![t] = ExceptClause(raised, raised) ]
                 /\ pc' = [ pc EXCEPT ![t] = "respond" ]
                 /\ UNCHANGED << todo, processed_images, url >>
            ELSE LoopHead(t, Tail(todo[t]),
                          Append(processed_images[t], ImageResult(Head(todo[t]), data)))
       ELSE /\ pc' = [ pc EXCEPT ![t] = "dl_ret" ]
            /\ UNCHANGED << todo, processed_images, url, response >>

(***************************************************************************)
(* download_image (app.py:52-70): one step per access of image_cache; the   *)
(* network retrieval is a step of its own.                                  *)
(***************************************************************************)
\* The record keyed by what was fetched, not by where from.
CacheKey_OfContent(t) == image_base64[t]

\* app.py:56: the key download_image looks up and stores under
CacheKey(t) == md5(url[t])

\* app.py:58: return image_cache[cache_key]
DlHit(t) ==
    /\ pc[t] = "dl_hit"
    /\ DownloadReturns(t, Some(image_cache[CacheKey(t)]), "")
    /\ UNCHANGED << image_cache, route, req, image_base64, netcalls, netlast, wrote,
                    cache0, calls, rq, rres >>

\* The size check left out: every 200 response is stored.
CacheHasRoom_Always == TRUE

\* app.py:65: `len(image_cache) < 20`
CacheHasRoom == Cardinality(DOMAIN image_cache) < MAX_CACHE_SIZE

\* A retry added: after an exception on the first attempt the retrieval is tried
\* once more.
DlGet_Retry(t, o) ==
    /\ pc[t] = "dl_get"
    /\ netcalls' = [ netcalls EXCEPT ![t] = @ + 1 ]
    /\ IF o.kind = "raise"
       THEN /\ netlast' = [ netlast EXCEPT ![t] = o.exc ]
            /\ IF netcalls[t] = 0
               THEN UNCHANGED << pc, image_data, dl_raised, todo, processed_images, url,
                                 response >>
               ELSE DownloadReturns(t, None, IF DownloadCatches(o.exc) THEN "" ELSE o.exc)
            /\ UNCHANGED image_base64
       ELSE IF o.status_code = 200
       THEN /\ netlast' = [ netlast EXCEPT ![t] = "200" ]
            /\ image_base64' = [ image_base64 EXCEPT ![t] = b64encode(o.content) ]
            /\ IF CacheHasRoom
               THEN /\ pc' = [ pc EXCEPT ![t] = "dl_store" ]
                    /\ UNCHANGED << image_data, dl_raised, todo, processed_images, url,
                                    response >>
               ELSE DownloadReturns(t, Some(b64encode(o.content)), "")
       ELSE /\ netlast' = [ netlast EXCEPT ![t] = "status" ]
            /\ DownloadReturns(t, None, "")
            /\ UNCHANGED image_base64
    /\ UNCHANGED << image_cache, route, req, wrote, cache0, calls, rq, rres >>

\* app.py:60-65, 67-70: requests.get returns or raises.  An exception and a status
\* other than 200 give None; a 200 response is encoded and, when the cache has
\* no room, returned unstored.
DlGet(t, o) ==
    /\ pc[t] = "dl_get"
    /\ netcalls' = [ netcalls EXCEPT ![t] = @ + 1 ]
    /\ IF o.kind = "raise"
       THEN /\ netlast' = [ netlast EXCEPT ![t] = o.exc ]
            /\ DownloadReturns(t, None, IF DownloadCatches(o.exc) THEN "" ELSE o.exc)
            /\ UNCHANGED image_base64
       ELSE IF o.status_code = 200
       THEN /\ netlast' = [ netlast EXCEPT ![t] = "200" ]
            /\ image_base64' = [ image_base64 EXCEPT ![t] = b64encode(o.content) ]
            /\ IF CacheHasRoom
               THEN /\ pc' = [ pc EXCEPT ![t] = "dl_store" ]
                    /\ UNCHANGED << image_data, dl_raised, todo, processed_images, url,
                                    response >>
               ELSE DownloadReturns(t, Some(b64encode(o.content)), "")
       ELSE /\ netlast' = [ netlast EXCEPT ![t] = "status" ]
            /\ DownloadReturns(t, None, "")
            /\ UNCHANGED image_base64
    /\ UNCHANGED << image_cache, route, req, wrote, cache0, calls, rq, rres >>

\* The assignment lost: nothing is stored.
CachePut_Dropped(cache, key, value) == cache

\* dict.setdefault in place of the assignment: a stored record is kept.
CachePut_KeepFirst(cache, key, value) ==
    [ k \in DOMAIN cache \cup {key} |-> IF k \in DOMAIN cache THEN cache[k] ELSE value ]

\* An eviction added: a store into a cache that holds two records drops the others.
CachePut_Evicting(cache, key, value) ==
    [ k \in (IF Cardinality(DOMAIN cache) >= 2 THEN {} ELSE DOMAIN cache) \cup {key} |->
        IF k = key THEN value ELSE cache[k] ]

\* image_cache[key] = value
CachePut(cache, key, value) ==
    [ k \in DOMAIN cache \cup {key} |-> IF k = key THEN value ELSE cache[k] ]

\* app.py:66-67: image_cache[cache_key] = image_base64; return image_base64
DlStore(t) ==
    /\ pc[t] = "dl_store"
    /\ image_cache' = CachePut(image_cache, CacheKey(t), image_base64[t])
    /\ wrote' = [ wrote EXCEPT ![t] = TRUE ]
    /\ DownloadReturns(t, Some(image_base64[t]), "")
    /\ UNCHANGED << route, req, image_base64, netcalls, netlast, cache0, calls, rq, rres >>

(***************************************************************************)
(* The routes (app.py:105-157).                                             *)
(***************************************************************************)
\* The request bodies the clients of the model send to /fetch_image: one that
\* resolves to each catalog entry, and the malformed ones.
RequestBodies ==
    { JObject(JStr("Romeo and Juliet"), JAbsent, JBool(TRUE)),
      JObject(JStr("juliet"), JInt(7), JInt(1)),
      JObject(JAbsent, JAbsent, JAbsent),
      JObject(JStr("solar system"), JAbsent, JInt(5)),
      JObject(JStr(""), JStr("biology"), JNull),
      JObject(JStr("dna"), JAbsent, JInt(0)),
      JObject(JStr("dna"), JAbsent, JInt(-1)),
      JObject(JStr("dna"), JAbsent, JStr("2")),
      JObject(JStr("dna"), JAbsent, JFloat("1.5")),
      JObject(JNull, JAbsent, JAbsent),
      JObject(JInt(5), JStr("biology"), JAbsent),
      JObject(JStr("x"), JInt(7), JAbsent),
      NonObject("null"),
      NonObject("list"),
      NonObject("nojson") }

\* LoopList and NoImages of every body of RequestBodies, evaluated once.
Handled ==
    [ body \in RequestBodies |-> [ noImages |-> NoImages(body), list |-> LoopList(body) ] ]

\* app.py:109-130: fetch_image from the request to its first download_image call,
\* or to the response when there is none.
Receive(t, body) ==
    /\ pc[t] = "idle"
    /\ route' = [ route EXCEPT ![t] = "fetch_image" ]
    /\ req' = [ req EXCEPT ![t] = body ]
    /\ IF Handled[body].noImages
       THEN /\ response' = [ response EXCEPT ![t] =
                    JsonResponse(FALSE, << >>, Some("No relevant images found")) ]
            /\ pc' = [ pc EXCEPT ![t] = "respond" ]
            /\ UNCHANGED << todo, processed_images, url >>
       ELSE IF Handled[body].list.raised
       THEN /\ response' = [ response EXCEPT ![t] =
                    ExceptClause(Handled[body].list.type, Handled[body].list.msg) ]
            /\ pc' = [ pc EXCEPT ![t] = "respond" ]
            /\ UNCHANGED << todo, processed_images, url >>
       ELSE LoopHead(t, Handled[body].list.value, << >>)
    /\ UNCHANGED << image_cache, image_base64, image_data, dl_raised, netcalls, netlast,
                    wrote, cache0, calls, rq, rres >>

\* The size of the catalog reported in place of the size of the cache.
Health_CountsCatalog(t) ==
    /\ pc[t] = "idle"
    /\ route' = [ route EXCEPT ![t] = "health" ]
    /\ response' = [ response EXCEPT ![t] =
            [ kind |-> "health", status |-> "healthy",
              cache_size |-> Cardinality(DOMAIN EDUCATIONAL_IMAGES) ] ]
    /\ pc' = [ pc EXCEPT ![t] = "respond" ]
    /\ UNCHANGED << image_cache, req, todo, processed_images, url, image_base64,
                    image_data, dl_raised, netcalls, netlast, wrote, cache0, calls,
                    rq, rres >>

\* app.py:155-157
Health(t) ==
    /\ pc[t] = "idle"
    /\ route' = [ route EXCEPT ![t] = "health" ]
    /\ response' = [ response EXCEPT ![t] =
            [ kind |-> "health", status |-> "healthy",
              cache_size |-> Cardinality(DOMAIN image_cache) ] ]
    /\ pc' = [ pc EXCEPT ![t] = "respond" ]
    /\ UNCHANGED << image_cache, req, todo, processed_images, url, image_base64,
                    image_data, dl_raised, netcalls, netlast, wrote, cache0, calls,
                    rq, rres >>

\* app.py:105-107
Root(t) ==
    /\ pc[t] = "idle"
    /\ route' = [ route EXCEPT ![t] = "root" ]
    /\ response' = [ response EXCEPT ![t] =
            [ kind |-> "root", message |-> "Educational Image Service",
              status |-> "active" ] ]
    /\ pc' = [ pc EXCEPT ![t] = "respond" ]
    /\ UNCHANGED << image_cache, req, todo, processed_images, url, image_base64,
                    image_data, dl_raised, netcalls, netlast, wrote, cache0, calls,
                    rq, rres >>

\* The response is sent; the worker is free for the next request.
Respond(t) ==
    /\ pc[t] = "respond"
    /\ pc' = [ pc EXCEPT ![t] = "idle" ]
    /\ route' = [ route EXCEPT ![t] = "" ]
    /\ req' = [ req EXCEPT ![t] = NoRequest ]
    /\ todo' = [ todo EXCEPT ![t] = << >> ]
    /\ processed_images' = [ processed_images EXCEPT ![t] = << >> ]
    /\ url' = [ url EXCEPT ![t] = "" ]
    /\ image_base64' = [ image_base64 EXCEPT ![t] = "" ]
    /\ image_data' = [ image_data EXCEPT ![t] = None ]
    /\ dl_raised' = [ dl_raised EXCEPT ![t] = "" ]
    /\ response' = [ response EXCEPT ![t] = NoResponse ]
    /\ netcalls' = [ netcalls EXCEPT ![t] = 0 ]
    /\ netlast' = [ netlast EXCEPT ![t] = "" ]
    /\ wrote' = [ wrote EXCEPT ![t] = FALSE ]
    /\ UNCHANGED << image_cache, cache0, calls, rq, rres >>

Next ==
    \E t \in Workers :
        \/ \E body \in RequestBodies : Receive(t, body)
        \/ DlHit(t)
        \/ \E o \in NetOutcomes : DlGet(t, o)
        \/ DlStore(t)
        \/ Health(t)
        \/ Root(t)
        \/ Respond(t)

Spec == Init /\ [][Next]_vars

(***************************************************************************)
(* download_image called directly, one call after the other, on a cache     *)
(* that already holds k records of other locations, 0 <= k <= 20.           *)
(***************************************************************************)
Prefilled(k) == [ d \in { OtherDigests[i] : i \in 1..k } |-> b64encode(<< 137, 80 >>) ]

\* The locations of the direct calls: the catalog's, and one the cache may hold
\* from the start.
DirectUrls == CatalogUrls \cup { OtherUrls[1] }

InitDownload ==
    /\ \E k \in 0..MAX_CACHE_SIZE : image_cache = Prefilled(k)
    /\ IdleFrame
    /\ cache0 = image_cache
    /\ calls = << >>
    /\ rq = NoQuery
    /\ rres = Pending

\* download_image(u) is called.
Call(u) ==
    /\ pc[1] = "idle"
    /\ Len(calls) < MaxCalls
    /\ route' = [ route EXCEPT ![1] = "direct" ]
    /\ cache0' = image_cache
    /\ netcalls' = [ netcalls EXCEPT ![1] = 0 ]
    /\ netlast' = [ netlast EXCEPT ![1] = "" ]
    /\ wrote' = [ wrote EXCEPT ![1] = FALSE ]
    /\ image_data' = [ image_data EXCEPT ![1] = None ]
    /\ EnterDownload(1, u)
    /\ UNCHANGED << image_cache, req, todo, processed_images, image_base64, dl_raised,
                    response, calls, rq, rres >>

\* What is recorded of a completed call.
CallRecord ==
    [ url |-> url[1],
      cached |-> md5(url[1]) \in DOMAIN cache0,
      size |-> Cardinality(DOMAIN cache0),
      netcalls |-> netcalls[1],
      netlast |-> netlast[1],
      data |-> image_data[1],
      fetched |-> image_base64[1],
      raised |-> dl_raised[1],
      unchanged |-> image_cache = cache0 ]

\* The caller has the result.
Return ==
    /\ pc[1] = "dl_ret"
    /\ calls' = Append(calls, CallRecord)
    /\ pc' = [ pc EXCEPT ![1] = "idle" ]
    /\ UNCHANGED << image_cache, route, req, todo, processed_images, url, image_base64,
                    image_data, dl_raised, response, netcalls, netlast, wrote, cache0,
                    rq, rres >>

NextDownload ==
    \/ \E u \in DirectUrls : Call(u)
    \/ DlHit(1)
    \/ \E o \in NetOutcomes : DlGet(1, o)
    \/ DlStore(1)
    \/ Return

SpecDownload == InitDownload /\ [][NextDownload]_vars

(***************************************************************************)
(* find_relevant_images applied to a query and a subject built from the     *)
(* keywords of its rules, in mixed case, and words that match no rule.      *)
(***************************************************************************)
QueryWords ==
    { "dicksee", "Romeo", "JULIET", "Shakespeare", "solar", "Planet", "DNA", "genetic",
      " art " }
SubjectWords ==
    { "English", "literature", "science", "Biology", "astronomy", "PHYSICS", "history" }

\* The concatenations of at most n words.
RECURSIVE Concats(_, _)
Concats(words, n) ==
    IF n = 0 THEN { "" }
    ELSE LET shorter == Concats(words, n - 1)
         IN  shorter \cup { w \o s : w \in words, s \in shorter }

Queries == { JStr(s) : s \in Concats(QueryWords, MaxQueryWords) }
\* subject=None (its default), the empty string, a word, or two words that match
\* different subject rules
Subjects ==
    { JNull, JStr("") }
        \cup { JStr(w) : w \in SubjectWords }
        \cup { JStr("Biology and English"), JStr("PHYSICS, science") }

InitResolver ==
    /\ image_cache = EmptyCache
    /\ IdleFrame
    /\ cache0 = EmptyCache
    /\ calls = << >>
    /\ rq \in [ query : Queries, subject : Subjects ]
    /\ rres = Pending

Resolve ==
    /\ rres = Pending
    /\ rres' = find_relevant_images(rq.query, rq.subject)
    /\ UNCHANGED << image_cache, pc, route, req, todo, processed_images, url, image_base64,
                    image_data, dl_raised, response, netcalls, netlast, wrote, cache0,
                    calls, rq >>

NextResolver == Resolve

SpecResolver == InitResolver /\ [][NextResolver]_vars

(***************************************************************************)
(* The claims.                                                              *)
(***************************************************************************)
FailedKinds == {"status", "Timeout", "ConnectionError"}

\* C1: in every reachable state of the service, whatever requests the workers
\* handle and however their steps interleave, image_cache holds at most
\* MAX_CACHE_SIZE (20) records.
C1_CacheAtMostMax == Cardinality(DOMAIN image_cache) <= MAX_CACHE_SIZE

\* Two workers have both passed the size check and are about to store records of
\* different locations into a cache that already holds some.
C1_Witness ==
    \E t1, t2 \in Workers :
        /\ pc[t1] = "dl_store" /\ pc[t2] = "dl_store"
        /\ url[t1] # url[t2]
        /\ Cardinality(DOMAIN image_cache) >= 3

\* C2 as stated: of two successive download_image calls with the same location, at
\* most one performs a network call, whatever the cache held at the start.
C2_TwoCallsOneFetch ==
    \A i \in 1..(Len(calls) - 1) :
        calls[i].url = calls[i + 1].url
            => calls[i].netcalls + calls[i + 1].netcalls <= 1

\* C2 amended: of two successive download_image calls with the same location, the
\* second performs no network call and returns what the first returned, provided
\* the first found the location cached, or its retrieval returned status 200 and
\* the cache held fewer than 20 records.
C2_SecondCallFromCache ==
    \A i \in 1..(Len(calls) - 1) :
        ( /\ calls[i].url = calls[i + 1].url
          /\ \/ calls[i].cached
             \/ calls[i].netlast = "200" /\ calls[i].size < MAX_CACHE_SIZE )
            => /\ calls[i].netcalls + calls[i + 1].netcalls <= 1
               /\ calls[i + 1].netcalls = 0
               /\ calls[i + 1].data = calls[i].data

\* A first call fetched and stored, the second was served from the cache.
C2_Witness ==
    \E i \in 1..(Len(calls) - 1) :
        /\ calls[i].url = calls[i + 1].url
        /\ ~calls[i].cached /\ calls[i].netlast = "200" /\ calls[i].netcalls = 1
        /\ calls[i + 1].netcalls = 0
        /\ calls[i + 1].data = calls[i].data

\* C3: a call that finds 20 records in the cache, none of them its location's, and
\* whose retrieval returns status 200 returns the encoded body and leaves the cache
\* as it was; a later call with the same location performs a network call again.
C3_FullCacheNotRetained ==
    \A i \in 1..Len(calls) :
        ( calls[i].size = MAX_CACHE_SIZE /\ ~calls[i].cached /\ calls[i].netlast = "200" )
            => /\ calls[i].data = Some(calls[i].fetched)
               /\ calls[i].raised = ""
               /\ calls[i].unchanged
               /\ \A j \in (i + 1)..Len(calls) :
                      calls[j].url = calls[i].url
                          => ~calls[j].cached /\ calls[j].netcalls = 1

\* The 21st location was fetched with success twice in a row.
C3_Witness ==
    \E i \in 1..(Len(calls) - 1) :
        /\ calls[i].size = MAX_CACHE_SIZE /\ ~calls[i].cached
        /\ calls[i].netlast = "200" /\ calls[i].data = Some("/9j/")
        /\ calls[i + 1].url = calls[i].url
        /\ calls[i + 1].netcalls = 1 /\ calls[i + 1].netlast = "200"

\* C4: a call that finds its location's fingerprint in the cache returns exactly
\* the value stored under it, performs no network call and leaves the cache as it
\* was, however many calls came before it.
C4_HitReturnsStored ==
    ( pc[1] = "dl_ret" /\ md5(url[1]) \in DOMAIN cache0 )
        => /\ image_data[1] = Some(cache0[md5(url[1])])
           /\ dl_raised[1] = ""
           /\ netcalls[1] = 0
           /\ image_cache = cache0

\* A record stored by an earlier call is returned by the second call after it.
C4_Witness ==
    /\ pc[1] = "dl_ret" /\ md5(url[1]) \in DOMAIN cache0
    /\ url[1] \in CatalogUrls
    /\ Len(calls) >= 1
    /\ image_data[1] = Some("/9j/")

\* C5: a call whose retrieval fails (a status other than 200, a timeout, a
\* connection error) returns None, raises nothing to its caller and leaves the
\* cache as it was.
C5_FailureGivesNone ==
    ( pc[1] = "dl_ret" /\ netlast[1] \in FailedKinds )
        => /\ image_data[1] = None
           /\ dl_raised[1] = ""
           /\ image_cache = cache0

\* A connection error on a cache that holds records.
C5_Witness ==
    /\ pc[1] = "dl_ret" /\ netlast[1] = "ConnectionError"
    /\ image_data[1] = None
    /\ Cardinality(DOMAIN image_cache) > 0

\* The entry find_relevant_images gives for the body of a request.
ResolvedEntry(body) == Handled[body].list.value[1]

\* C6: a /fetch_image request whose retrieval failed is answered with success =
\* true and one image, whose data is "" and whose url is the location of the
\* catalog entry the request resolved to.
C6_FailedFetchStillSuccess ==
    \A t \in Workers :
        ( pc[t] = "respond" /\ route[t] = "fetch_image" /\ netlast[t] \in FailedKinds )
            => /\ response[t].kind = "json"
               /\ response[t].success = TRUE
               /\ response[t].error = None
               /\ Len(response[t].images) = 1
               /\ response[t].images[1].data = ""
               /\ response[t].images[1].url = ResolvedEntry(req[t]).url

\* The retrieval of the solar system image timed out; the response carries its url.
C6_Witness ==
    \E t \in Workers :
        /\ pc[t] = "respond" /\ route[t] = "fetch_image" /\ netlast[t] = "Timeout"
        /\ response[t].success = TRUE
        /\ response[t].images[1].url = SolarUrl
        /\ response[t].images[1].data = ""

\* C7: whatever the request body, the response of /fetch_image is a JSON response,
\* never an exception that left the handler; when a step of the handler raised, it
\* is {success: false, images: [], error: <the exception's message>}.
C7_NoExceptionEscapes ==
    \A t \in Workers :
        ( pc[t] = "respond" /\ route[t] = "fetch_image" )
            => /\ response[t].kind = "json"
               /\ ( Handled[req[t]].list.raised \/ dl_raised[t] # "" )
                      => /\ response[t].success = FALSE
                         /\ response[t].images = << >>
                         /\ response[t].error # None
               /\ Handled[req[t]].list.raised
                      => response[t].error = Some(Handled[req[t]].list.msg)

\* A body that is JSON null, a query that is null or a count that is a string has
\* been answered with the error response.
C7_Witness ==
    \E t \in Workers :
        /\ pc[t] = "respond" /\ route[t] = "fetch_image"
        /\ req[t] \in { NonObject("null"), JObject(JNull, JAbsent, JAbsent),
                        JObject(JStr("dna"), JAbsent, JStr("2")) }
        /\ response[t].kind = "json" /\ response[t].success = FALSE
        /\ response[t].error \in
               { Some("'NoneType' object has no attribute 'get'"),
                 Some("'NoneType' object has no attribute 'lower'"),
                 Some("slice indices must be integers or None or have an __index__ method") }

CatalogEntries == { EDUCATIONAL_IMAGES[k] : k \in CatalogKeys }

\* C8: for every query string and every subject, a string or None,
\* find_relevant_images returns a list of exactly one catalog entry.
C8_ExactlyOneEntry ==
    rres # Pending
        => /\ ~rres.raised
           /\ Len(rres.value) = 1
           /\ rres.value[1] \in CatalogEntries

\* A query that matches two query rules with a subject that matches a subject rule,
\* and a query and a subject that match nothing.
C8_Witness ==
    /\ rres # Pending
    /\ Len(rres.value) = 1
    /\ \/ rq.query = JStr("JULIETDNA") /\ rq.subject = JStr("science")
       \/ rq.query = JStr(" art ") /\ rq.subject = JStr("history")

\* C9: the query rules apply in order, first match wins, whatever the subject:
\* 'dicksee' or both 'romeo' and 'juliet' give the Dicksee entry; else 'juliet' the
\* Waterhouse entry; else 'shakespeare' the Shakespeare portrait; else 'solar' or
\* 'planet' the solar system entry; else 'dna' or 'genetic' the DNA entry.
C9_QueryPrecedence ==
    rres # Pending
        => LET query_lower == lower(rq.query.s)
               has(w) == In(w, query_lower)
               dicksee == has("dicksee") \/ (has("romeo") /\ has("juliet"))
               juliet == ~dicksee /\ has("juliet")
               shakespeare == ~dicksee /\ ~juliet /\ has("shakespeare")
               solar == ~dicksee /\ ~juliet /\ ~shakespeare
                            /\ (has("solar") \/ has("planet"))
               dna == ~dicksee /\ ~juliet /\ ~shakespeare /\ ~solar
                            /\ (has("dna") \/ has("genetic"))
           IN  /\ dicksee => rres.value = << EDUCATIONAL_IMAGES["romeo_juliet_dicksee"] >>
               /\ juliet => rres.value = << EDUCATIONAL_IMAGES["romeo_juliet_waterhouse"] >>
               /\ shakespeare => rres.value = << EDUCATIONAL_IMAGES["shakespeare_portrait"] >>
               /\ solar => rres.value = << EDUCATIONAL_IMAGES["solar_system"] >>
               /\ dna => rres.value = << EDUCATIONAL_IMAGES["dna_structure"] >>

\* A query with 'romeo', 'juliet' and 'dna', in mixed case, under a subject that
\* matches a subject rule, resolved to the Dicksee entry.
C9_Witness ==
    /\ rres # Pending
    /\ rq.query = JStr("DNAJULIETRomeo")
    /\ rq.subject = JStr("science")
    /\ rres.value = << EDUCATIONAL_IMAGES["romeo_juliet_dicksee"] >>

\* No keyword of a query rule occurs in the query.
NoQueryRule ==
    LET query_lower == lower(rq.query.s)
    IN  \A w \in {"dicksee", "juliet", "shakespeare", "solar", "planet", "dna", "genetic"} :
            ~In(w, query_lower)

\* C10: when no query rule matched, a subject with 'english' or 'literature' gives
\* the Shakespeare portrait, else 'science' or 'biology' the DNA entry, else
\* 'astronomy' or 'physics' the solar system entry, and a subject that is None,
\* empty or matches none of these the Shakespeare portrait; when a query rule
\* matched, the result is the one the query gives without a subject.
C10_SubjectOnlyAfterQuery ==
    rres # Pending
        => LET subject_lower == lower(rq.subject.s)
               sub(w) == rq.subject.ty = "str" /\ In(w, subject_lower)
           IN  /\ NoQueryRule =>
                     rres.value =
                        IF sub("english") \/ sub("literature")
                        THEN << EDUCATIONAL_IMAGES["shakespeare_portrait"] >>
                        ELSE IF sub("science") \/ sub("biology")
                        THEN << EDUCATIONAL_IMAGES["dna_structure"] >>
                        ELSE IF sub("astronomy") \/ sub("physics")
                        THEN << EDUCATIONAL_IMAGES["solar_system"] >>
                        ELSE << EDUCATIONAL_IMAGES["shakespeare_portrait"] >>
               /\ ~NoQueryRule => rres = find_relevant_images(rq.query, JNull)

\* A query that matches no rule under the subject "Biology" resolved to the DNA entry.
C10_Witness ==
    /\ rres # Pending
    /\ NoQueryRule
    /\ rq.query = JStr(" art Romeo")
    /\ rq.subject = JStr("Biology")
    /\ rres.value = << EDUCATIONAL_IMAGES["dna_structure"] >>

\* What find_relevant_images gives for the query and the subject of every body that
\* is a JSON object, evaluated once.
Resolved ==
    [ body \in { b \in RequestBodies : b.ty = "object" } |->
        find_relevant_images(DictGet(body.query, JStr("")), DictGet(body.subject, JNull)) ]

\* The count of a body that is a JSON object, 1 when the body has none.
CountOf(body) == DictGet(body.count, JInt(1))

\* A request find_relevant_images resolves: a JSON object whose query is a string
\* and whose subject, where it is consulted, is a string or None.
ValidQuery(body) ==
    /\ body.ty = "object"
    /\ DictGet(body.query, JStr("")).ty = "str"
    /\ ~Resolved[body].raised

\* C11: a /fetch_image request with a valid query and an integer count >= 1,
\* however large, is answered with success = true and exactly one image, whose
\* title, caption and alt text are those of the catalog entry the query resolved
\* to; a count above 1 adds no entry.
C11_OneImagePerRequest ==
    \A t \in Workers :
        ( /\ pc[t] = "respond" /\ route[t] = "fetch_image"
          /\ ValidQuery(req[t])
          /\ CountOf(req[t]).ty = "int" /\ CountOf(req[t]).n >= 1 )
            => /\ response[t].kind = "json"
               /\ response[t].success = TRUE
               /\ Len(response[t].images) = 1
               /\ Len(Resolved[req[t]].value) = 1
               /\ response[t].images[1].title = Resolved[req[t]].value[1].title
               /\ response[t].images[1].educational_caption = Resolved[req[t]].value[1].caption
               /\ response[t].images[1].alt_text = Resolved[req[t]].value[1].alt_text
               /\ response[t].images[1].source = "wikimedia"

\* A request for "solar system" with count 5 has been answered with the one solar
\* system image.
C11_Witness ==
    \E t \in Workers :
        /\ pc[t] = "respond" /\ route[t] = "fetch_image"
        /\ req[t] = JObject(JStr("solar system"), JAbsent, JInt(5))
        /\ response[t].success = TRUE
        /\ Len(response[t].images) = 1
        /\ response[t].images[1].title = EDUCATIONAL_IMAGES["solar_system"].title

\* C12: the step that handles /health reports as cache_size the number of records
\* image_cache holds at that moment, whatever the other worker is doing, and the
\* steps that handle /health and / leave image_cache as it was.
C12_HealthReportsSize ==
    [][ \A t \in Workers :
            ( pc[t] = "idle" /\ route'[t] \in {"health", "root"} )
                => /\ image_cache' = image_cache
                   /\ pc'[t] = "respond"
                   /\ route'[t] = "health"
                          => /\ response'[t].kind = "health"
                             /\ response'[t].cache_size = Cardinality(DOMAIN image_cache)
                             /\ response'[t].cache_size =
                                    Cardinality({ u \in CatalogUrls : md5(u) \in DOMAIN image_cache })
      ]_vars

\* /health has reported 2 records while the other worker is about to store a third.
C12_Witness ==
    \E t1, t2 \in Workers :
        /\ pc[t1] = "respond" /\ route[t1] = "health"
        /\ response[t1].cache_size = 2
        /\ Cardinality(DOMAIN image_cache) = 2
        /\ pc[t2] = "dl_store" /\ md5(url[t2]) \notin DOMAIN image_cache

\* Worker t stores its record in this step (app.py:66).
Stores(t) == pc[t] = "dl_store" /\ pc'[t] # "dl_store"

\* C13: two concurrent requests for the same uncached location can both pass the
\* cache check and both fetch (the witness); whenever one of them stores, the
\* cache holds under the location's fingerprint the value that worker fetched,
\* replacing what the other stored, and every other record is as it was: one
\* record for the location, the value written last.
C13_LastWriteWins ==
    [][ \A t \in Workers :
            Stores(t)
                => /\ DOMAIN image_cache' = DOMAIN image_cache \cup { md5(url[t]) }
                   /\ image_cache'[md5(url[t])] = image_base64[t]
                   /\ \A k \in DOMAIN image_cache :
                          k # md5(url[t]) => image_cache'[k] = image_cache[k]
                   /\ Cardinality({ k \in DOMAIN image_cache' : k = md5(url[t]) }) = 1
      ]_vars

\* Both workers fetched the same location and got different bodies, both stored,
\* and the cache holds one record for it.
C13_Witness ==
    \E t1, t2 \in Workers :
        /\ t1 # t2
        /\ pc[t1] = "respond" /\ pc[t2] = "respond"
        /\ route[t1] = "fetch_image" /\ route[t2] = "fetch_image"
        /\ url[t1] = url[t2]
        /\ netcalls[t1] = 1 /\ netcalls[t2] = 1
        /\ wrote[t1] /\ wrote[t2]
        /\ image_base64[t1] # image_base64[t2]
        /\ image_cache[md5(url[t1])] \in { image_base64[t1], image_base64[t2] }
        /\ Cardinality(DOMAIN image_cache) = 1

\* Worker t is about to send a success response of /fetch_image with an image; the
\* one download_image call of the request returned image_data[t].
HasImage(t) ==
    /\ pc[t] = "respond" /\ route[t] = "fetch_image"
    /\ response[t].kind = "json" /\ response[t].success = TRUE
    /\ Len(response[t].images) = 1

\* C14 as stated: the image's url is "" whenever download_image returned a value,
\* the empty payload of a 200 response with an empty body included, and the
\* entry's location only when it returned None; data is the value returned or "".
C14_UrlEmptyWheneverValue ==
    \A t \in Workers :
        HasImage(t)
            => /\ image_data[t] # None => response[t].images[1].url = ""
               /\ response[t].images[1].url = Resolved[req[t]].value[1].url
                      => image_data[t] = None
               /\ response[t].images[1].data = OrEmpty(image_data[t])

\* C14 amended: the image's url is "" when download_image returned a non-empty
\* payload, and the entry's location when it returned None or the empty payload
\* of a 200 response with an empty body; data is the value returned or "".
C14_UrlEmptyWhenData ==
    \A t \in Workers :
        HasImage(t)
            => /\ image_data[t] \notin { None, Some("") }
                      => /\ response[t].images[1].url = ""
                         /\ response[t].images[1].data = image_data[t][1]
               /\ image_data[t] \in { None, Some("") }
                      => /\ response[t].images[1].url = Resolved[req[t]].value[1].url
                         /\ response[t].images[1].data = ""

\* A 200 response with an empty body: download_image returned "", and the image
\* carries the entry's location.
C14_Witness ==
    \E t \in Workers :
        /\ HasImage(t)
        /\ netlast[t] = "200" /\ image_data[t] = Some("")
        /\ response[t].images[1].url = Resolved[req[t]].value[1].url
        /\ response[t].images[1].url # ""
        /\ response[t].images[1].data = ""

\* C15: the set of fingerprints in image_cache only grows: no step of any request,
\* whether it succeeds, fails in the retrieval or is malformed, removes one.
C15_KeysOnlyGrow == [][DOMAIN image_cache \subseteq DOMAIN image_cache']_vars

\* The cache holds three records while one worker answers a malformed request with
\* the error response and the other's retrieval has failed.
C15_Witness ==
    \E t1, t2 \in Workers :
        /\ Cardinality(DOMAIN image_cache) = 3
        /\ pc[t1] = "respond" /\ route[t1] = "fetch_image"
        /\ response[t1].kind = "json" /\ response[t1].success = FALSE
        /\ pc[t2] = "respond" /\ route[t2] = "fetch_image"
        /\ netlast[t2] \in FailedKinds

\* C16: a /fetch_image request performs at most one network retrieval, whatever
\* its count and whatever the retrieval's outcome: a failed retrieval is not tried
\* again.
C16_AtMostOneFetch ==
    \A t \in Workers :
        /\ netcalls[t] <= 1
        /\ ( route[t] = "fetch_image" /\ netlast[t] \in FailedKinds )
               => netcalls[t] = 1 /\ pc[t] = "respond"

\* The retrieval of a request with count 5 timed out and the request is answered
\* after that one attempt.
C16_Witness ==
    \E t \in Workers :
        /\ pc[t] = "respond" /\ route[t] = "fetch_image"
        /\ CountOf(req[t]) = JInt(5)
        /\ netlast[t] = "Timeout"
        /\ netcalls[t] = 1

\* A worker is between its cache check, which missed, and the end of its
\* download_image call for the location with fingerprint k.
InFlight(k) ==
    \E t \in Workers : pc[t] \in {"dl_get", "dl_store"} /\ md5(url[t]) = k

\* C17 as stated: a value stored under a fingerprint never changes afterwards, in
\* any interleaving.
C17_StoredValueNeverChanges ==
    [][ \A k \in DOMAIN image_cache : image_cache'[k] = image_cache[k] ]_vars

\* C17 amended: a stored value changes only when a worker that had missed the
\* cache for that location before the value was stored stores its own result; once
\* no such worker is in flight none appears and the value stays as it is, and a
\* request that finds the location cached is given the value stored at that
\* moment.
C17_StableOnceQuiet ==
    [][ /\ \A k \in DOMAIN image_cache :
               /\ image_cache'[k] # image_cache[k]
                      => \E t \in Workers :
                             /\ Stores(t) /\ md5(url[t]) = k
                             /\ image_cache'[k] = image_base64[t]
               /\ ~InFlight(k)
                      => /\ image_cache'[k] = image_cache[k]
                         /\ \A t \in Workers :
                                ~( pc'[t] \in {"dl_get", "dl_store"} /\ md5(url'[t]) = k )
        /\ \A t \in Workers :
               ( pc[t] = "dl_hit" /\ pc'[t] # "dl_hit" )
                   => image_data'[t] = Some(image_cache[md5(url[t])])
      ]_vars

\* One worker's record was replaced by the other's, fetched at the same time with
\* a different body; a later request for the location was then served the record
\* that stayed.
C17_Witness ==
    \E t1, t2 \in Workers :
        /\ pc[t1] = "respond" /\ wrote[t1]
        /\ md5(url[t1]) \in DOMAIN image_cache
        /\ image_cache[md5(url[t1])] # image_base64[t1]
        /\ ~InFlight(md5(url[t1]))
        /\ pc[t2] = "respond" /\ url[t2] = url[t1]
        /\ netcalls[t2] = 0
        /\ image_data[t2] = Some(image_cache[md5(url[t1])])

\* C18: a /fetch_image request answered with success = false made no network call
\* and stored nothing: whatever fails in the handler fails before download_image
\* is called, and download_image raises nothing.
C18_ErrorBeforeDownload ==
    \A t \in Workers :
        ( /\ pc[t] = "respond" /\ route[t] = "fetch_image"
          /\ ( response[t].kind # "json" \/ response[t].success = FALSE ) )
            => /\ netcalls[t] = 0
               /\ netlast[t] = ""
               /\ ~wrote[t]
               /\ url[t] = ""
               /\ image_data[t] = None /\ dl_raised[t] = ""

\* A request with a count that is a string is answered with the error response
\* while the other worker is in its retrieval and the cache holds records.
C18_Witness ==
    \E t1, t2 \in Workers :
        /\ pc[t1] = "respond" /\ route[t1] = "fetch_image"
        /\ req[t1] = JObject(JStr("dna"), JAbsent, JStr("2"))
        /\ response[t1].success = FALSE
        /\ netcalls[t1] = 0
        /\ pc[t2] = "dl_get"
        /\ Cardinality(DOMAIN image_cache) >= 1

\* C19: a /fetch_image request with a valid query and an integer count <= 0 is
\* answered with success = true, an empty list of images and no error; it makes no
\* network call and stores nothing.
C19_NonPositiveCountEmpty ==
    \A t \in Workers :
        ( /\ pc[t] = "respond" /\ route[t] = "fetch_image"
          /\ ValidQuery(req[t])
          /\ CountOf(req[t]).ty = "int" /\ CountOf(req[t]).n <= 0 )
            => /\ response[t] = JsonResponse(TRUE, << >>, None)
               /\ netcalls[t] = 0
               /\ ~wrote[t]
               /\ url[t] = ""

\* The requests with count 0 and count -1 are both answered with the empty list.
C19_Witness ==
    \E t1, t2 \in Workers :
        /\ pc[t1] = "respond" /\ route[t1] = "fetch_image"
        /\ req[t1] = JObject(JStr("dna"), JAbsent, JInt(0))
        /\ pc[t2] = "respond" /\ route[t2] = "fetch_image"
        /\ req[t2] = JObject(JStr("dna"), JAbsent, JInt(-1))
        /\ response[t1].success = TRUE /\ response[t1].images = << >>
        /\ response[t2].success = TRUE /\ response[t2].images = << >>

\* The fingerprints of the catalog's locations.
CatalogFingerprints == { md5(u) : u \in CatalogUrls }

\* C20: image_cache changes only by the store of a download_image call whose
\* retrieval returned status 200, which puts the encoded body under the
\* fingerprint of the location it fetched; the service only fetches the 5 catalog
\* locations, so the cache holds fingerprints of these only, at most 5 records.
C20_OnlyFetchedCatalogRecords ==
    /\ [] ( /\ DOMAIN image_cache \subseteq CatalogFingerprints
            /\ Cardinality(DOMAIN image_cache) <= 5
            /\ \A t \in Workers :
                   pc[t] = "dl_store"
                       => /\ netlast[t] = "200" /\ netcalls[t] = 1
                          /\ url[t] \in CatalogUrls )
    /\ [][ image_cache' # image_cache
               => \E t \in Workers :
                      /\ Stores(t)
                      /\ netlast[t] = "200"
                      /\ image_cache' =
                             [ k \in DOMAIN image_cache \cup { md5(url[t]) } |->
                                 IF k = md5(url[t]) THEN image_base64[t] ELSE image_cache[k] ]
          ]_vars

\* The cache holds a record for each of the 5 catalog locations, and a worker whose
\* retrieval returned 200 is about to store again.
C20_Witness ==
    /\ DOMAIN image_cache = CatalogFingerprints
    /\ Cardinality(DOMAIN image_cache) = 5
    /\ \E t \in Workers : pc[t] = "dl_store" /\ netlast[t] = "200"

====
